---- MODULE Spec2Model ----
(***************************************************************************)
(* State-machine model of the realtime session connection manager          *)
(* (OpenAIRealtimeWebRTCProvider): the session reducer, connect() with its *)
(* timers, ICE monitoring and reconnection, the data-channel listeners,    *)
(* disconnect(), cleanupWebRTCResources() and the send* facade; and the    *)
(* EventEmitter of utils/logger.ts.                                        *)
(*                                                                         *)
(* The provider is a React component: every render re-creates connect,     *)
(* disconnect, sendClientEvent and cleanupWebRTCResources, each closing    *)
(* over the `session` value of that render.  A facade call made by the UI  *)
(* uses the latest render (the current reducer state); a callback that     *)
(* connect() registered keeps the `session` of the render in which         *)
(* connect() was called (conn[k].closure).                                 *)
(***************************************************************************)
EXTENDS Integers, Sequences, FiniteSets, TLC

VARIABLES
  session,    \* the reducer state: Null or a RealtimeSession record
  conn,       \* per connect() call: the state its closures own
  chan,       \* readyState of every data channel (created by connect or caller-supplied)
  wire,       \* per data channel: the messages handed to dataChannel.send, in order
  calls,      \* the sendClientEvent calls of the latest send operation: the event given, what the call saw
  nSends,     \* number of sendClientEvent calls so far
  nextUuid,   \* number of crypto.randomUUID() values drawn so far
  now,        \* Date.now(), in ms
  uncaught,   \* errors that left a background callback unhandled
  owner,      \* the connect() call whose INIT_SESSION created the current session (0: none)
  steps,      \* number of caller operations and host events so far
  inbox,      \* the latest inbound data-channel message, the session its listener found, what it did
  reduced,    \* the latest action applied to the store on its own, and the state it found
  listeners,  \* EventEmitter.listeners: event type -> callbacks in insertion order
  invoked,    \* the latest EventEmitter operation and the callbacks it invoked
  registrations \* per (type, callback): on() calls since its last removal, counted to 2

\* the EventEmitter, which the provider does not use
emitter == <<listeners, invoked, registrations>>

vars == <<session, conn, chan, wire, calls, nSends, nextUuid, now, uncaught, owner, steps,
          inbox, reduced, emitter>>

----------------------------------------------------------------------------
(* Bounds of the model *)

MaxConnects == 2       \* connect() calls
MaxSends == 2          \* sendClientEvent calls (direct or through a builder)
MaxSteps == 8          \* caller operations and host events in one run
MaxPending == 2        \* reconnection delay timers plus exchanges pending on one connection
MaxTime == 2           \* clock ticks
MaxCallbacks == 2      \* callbacks registered with the EventEmitter

ConnIds == 1..MaxConnects

----------------------------------------------------------------------------
(* Values *)

Null == [isNull |-> TRUE]             \* the null session
NoHandle == <<"none", 0>>             \* an absent / null handle
Ext == <<"ext", 0>>                   \* a data channel the caller put in the session config
Dc(k) == <<"dc", k>>                  \* the data channel connect() k created
Stream(k) == <<"stream", k>>          \* the remote media stream of connect() k
Pc(k) == <<"pc", k>>                  \* the peer connection of connect() k
Channels == {Ext} \cup {Dc(k) : k \in ConnIds}

NoTime == <<>>                        \* an absent timestamp / duration
Time(t) == <<t>>

Undefined == <<"undefined">>          \* an absent event_id
Str(s) == <<"string", s>>             \* a caller-supplied string
Uuid(n) == <<"uuid", n>>              \* the n-th crypto.randomUUID() value
\* !v for an optional string
Falsy(v) == v = Undefined \/ v = Str("")

ConnectionStatus ==
  {"CONNECTING", "CONNECTED", "DISCONNECTED", "RECONNECTING", "FAILED", "CLOSED"}
NoStatus == "undefined"               \* connectionStatus absent from the record

Modality == {"text", "audio"}

IceStates == {"new", "checking", "connected", "completed", "disconnected", "failed", "closed"}

----------------------------------------------------------------------------
(* sessionReducer *)

\* { ...state, ...payload }
Spread(state, payload) ==
  [f \in DOMAIN state \cup DOMAIN payload |->
     IF f \in DOMAIN payload THEN payload[f] ELSE state[f]]

\* [] in place of state?.transcripts || []: the earlier transcripts are dropped
TranscriptsOf_Dropped(state) == <<>>

\* state?.transcripts || []
TranscriptsOf(state) ==
  IF "transcripts" \in DOMAIN state THEN state.transcripts ELSE <<>>

\* a mute flag that also switches hasAudio
SetMuted_WithAudio(state, isMuted) == Spread(state, [isMuted |-> isMuted, hasAudio |-> ~isMuted])

\* { ...state, isMuted }
SetMuted(state, isMuted) == Spread(state, [isMuted |-> isMuted])

\* a reducer whose INIT_SESSION merges the payload into the session it finds
sessionReducer_InitMerges(state, action) ==
  CASE action.type = "INIT_SESSION" ->
         IF state = Null THEN action.payload ELSE Spread(state, action.payload)
    [] action.type = "UPDATE_SESSION" ->
         IF state = Null THEN Null ELSE Spread(state, action.payload)
    [] action.type = "ADD_TRANSCRIPT" ->
         IF state = Null THEN Null
         ELSE Spread(state, [transcripts |->
                               Append(TranscriptsOf(state), action.payload.transcript)])
    [] action.type = "UPDATE_TOKEN_USAGE" ->
         IF state = Null THEN Null
         ELSE Spread(state, [tokenUsage |-> action.payload.tokenUsage])
    [] action.type = "MUTE_SESSION_AUDIO" ->
         IF state = Null THEN Null ELSE SetMuted(state, TRUE)
    [] action.type = "UNMUTE_SESSION_AUDIO" ->
         IF state = Null THEN Null ELSE SetMuted(state, FALSE)
    [] action.type = "UPDATE_RATE_LIMITS" ->
         IF state = Null THEN Null
         ELSE Spread(state, [rateLimits |-> action.payload.rateLimits,
                             rateLimitResetTime |-> action.payload.rateLimitResetTime,
                             isRateLimited |-> action.payload.isRateLimited])

sessionReducer(state, action) ==
  CASE action.type = "INIT_SESSION" -> action.payload
    [] action.type = "UPDATE_SESSION" ->
         IF state = Null THEN Null ELSE Spread(state, action.payload)
    [] action.type = "ADD_TRANSCRIPT" ->
         IF state = Null THEN Null
         ELSE Spread(state, [transcripts |->
                               Append(TranscriptsOf(state), action.payload.transcript)])
    [] action.type = "UPDATE_TOKEN_USAGE" ->
         IF state = Null THEN Null
         ELSE Spread(state, [tokenUsage |-> action.payload.tokenUsage])
    [] action.type = "MUTE_SESSION_AUDIO" ->
         IF state = Null THEN Null ELSE SetMuted(state, TRUE)
    [] action.type = "UNMUTE_SESSION_AUDIO" ->
         IF state = Null THEN Null ELSE SetMuted(state, FALSE)
    [] action.type = "UPDATE_RATE_LIMITS" ->
         IF state = Null THEN Null
         ELSE Spread(state, [rateLimits |-> action.payload.rateLimits,
                             rateLimitResetTime |-> action.payload.rateLimitResetTime,
                             isRateLimited |-> action.payload.isRateLimited])

\* dispatch: the reducer runs on the current state, in dispatch order
dispatch(w, action) == [w EXCEPT !.session = sessionReducer(@, action)]

UpdateSession(payload) == [type |-> "UPDATE_SESSION", payload |-> payload]

----------------------------------------------------------------------------
(* The world a handler runs in: the reducer state, the closures' state and  *)
(* the channels.  Handlers are operators from world to world.               *)

World == [session |-> session, conn |-> conn, chan |-> chan]

NewConn ==
  [ st |-> "unused",            \* connect(): unused | awaitingMedia | resolved | rejected
    sessionId |-> 0,            \* const sessionId = realtimeSession.id
    audio |-> FALSE,            \* realtimeSession.modalities includes AUDIO
    closure |-> Null,           \* the `session` connect()'s closures see
    ice |-> "new",              \* pc.iceConnectionState
    iceTimeoutId |-> 0,         \* let iceTimeoutId: 0 is null, 1 and 2 the two timers
    timer1 |-> "unset",         \* the timer of line 370: unset | armed | cleared | fired
    timer2 |-> "unset",         \* the timer of line 474
    neg |-> "idle",             \* onnegotiationneeded: idle | pending | done | failed
    reconnTimers |-> 0,         \* pending 2 s reconnection timers
    reconnInFlight |-> 0,       \* attemptReconnection calls not yet settled
    localTrack |-> "none",      \* the getUserMedia audio track: none | live | ended
    remoteTrack |-> "none",     \* the track of ontrack: none | live | ended
    \* history, read only by the properties
    reachedConnected |-> FALSE, \* a handler of this connection dispatched CONNECTED
    lateTimeout |-> FALSE,      \* a timer ran cleanup after reachedConnected
    tornDown |-> FALSE,         \* disconnect() ran on the session of this connection
    lastAttempt |-> "none",     \* how the latest attemptReconnection ended: succeeded | failed
    pendingAtTeardown |-> FALSE ] \* ... while a reconnection timer or exchange was pending

\* `session` as seen by: 0, the latest render (facade calls); k, the closures of connect() k
SessionOf(ref, w) == IF ref = 0 THEN w.session ELSE w.conn[ref].closure

SetSessionOf(ref, w, s) ==
  IF ref = 0 THEN [w EXCEPT !.session = s] ELSE [w EXCEPT !.conn[ref].closure = s]

\* session.peer_connection.close()
ClosePeerConnection(j, w) ==
  [w EXCEPT !.conn[j].ice = "closed",
            !.chan[Dc(j)] = IF @ = "none" THEN @ ELSE "closed"]

RECURSIVE cleanupWebRTCResources(_, _)

\* track.stop(); track.dispatchEvent(new Event('ended')) on the stream of connect() j,
\* which runs event.track.onended of that connect(): if (session) cleanupWebRTCResources()
StopTracks(j, w) ==
  LET w1 == [w EXCEPT !.conn[j].remoteTrack = "ended"]
  IN IF w1.conn[j].closure # Null THEN cleanupWebRTCResources(j, w1) ELSE w1

cleanupWebRTCResources(ref, w) ==
  LET s == SessionOf(ref, w) IN
  IF s = Null THEN w
  ELSE
    LET w1 == IF s.mediaStream # NoHandle THEN StopTracks(s.mediaStream[2], w) ELSE w
        w2 == IF s.dataChannel # NoHandle /\ w1.chan[s.dataChannel] # "closed"
              THEN [w1 EXCEPT !.chan[s.dataChannel] = "closed"]
              ELSE w1
        w3 == IF s.peer_connection # NoHandle
              THEN ClosePeerConnection(s.peer_connection[2], w2)
              ELSE w2
    IN SetSessionOf(ref, w3,
         [s EXCEPT !.mediaStream = NoHandle,
                   !.dataChannel = NoHandle,
                   !.peer_connection = NoHandle])

\* disconnect() without `if (!session) return` on a store without the null rule:
\* { ...null, ...payload } is the payload
disconnect_WithoutSessionCheck(ref, w, t) ==
  LET s == SessionOf(ref, w) IN
  IF s = Null
  THEN SetSessionOf(ref, w,
         [connectionStatus |-> "CLOSED", endTime |-> Time(t), duration |-> Time(0)])
  ELSE
    LET w1 == cleanupWebRTCResources(ref, w)
        startTimeMs == IF s.startTime # NoTime THEN s.startTime[1] ELSE 0
        endTimeMs == t
        duration == IF startTimeMs # 0 THEN (endTimeMs - startTimeMs) \div 1000 ELSE 0
    IN dispatch(w1, UpdateSession(
         [connectionStatus |-> "CLOSED", endTime |-> Time(t), duration |-> Time(duration)]))

\* disconnect(), run at time t with the `session` of ref
disconnect(ref, w, t) ==
  LET s == SessionOf(ref, w) IN
  IF s = Null THEN w
  ELSE
    LET w1 == cleanupWebRTCResources(ref, w)
        startTimeMs == IF s.startTime # NoTime THEN s.startTime[1] ELSE 0
        endTimeMs == t
        duration == IF startTimeMs # 0 THEN (endTimeMs - startTimeMs) \div 1000 ELSE 0
    IN dispatch(w1, UpdateSession(
         [connectionStatus |-> "CLOSED", endTime |-> Time(t), duration |-> Time(duration)]))

----------------------------------------------------------------------------
(* connect() *)

\* every caller operation and host event counts toward the length of the run
Step ==
  /\ steps < MaxSteps
  /\ steps' = steps + 1

\* The session object the caller hands to connect(): the ephemeral session of the
\* credential endpoint (id, modalities), plus whatever RealtimeSession fields the
\* caller set itself.
RealtimeSession(id, mods, status, dc, start) ==
  [ id |-> id, modalities |-> mods, connectionStatus |-> status,
    lastStateChange |-> NoTime, hasAudio |-> FALSE,
    mediaStream |-> NoHandle, dataChannel |-> dc, peer_connection |-> NoHandle,
    startTime |-> start, endTime |-> NoTime, duration |-> NoTime ]

\* lines 368-537, 540-675: arm the timers, monitor the ICE state, create the data
\* channel and attach the handlers; connect() then resolves
SetUpConnection(k, w) ==
  LET armed1 == [w EXCEPT !.conn[k].iceTimeoutId = 1, !.conn[k].timer1 = "armed"]
      armed2 == [armed1 EXCEPT !.conn[k].iceTimeoutId = 2, !.conn[k].timer2 = "armed"]
  IN [armed2 EXCEPT !.chan[Dc(k)] = "connecting", !.conn[k].st = "resolved"]

\* connect() without the modalities test of line 265: capture is always requested
Connect_AlwaysCaptures(k, realtimeSession) ==
  /\ conn[k].st = "unused"
  /\ k > 1 => conn[k - 1].st # "unused"
  /\ Step
  /\ LET w1 == dispatch(World, [type |-> "INIT_SESSION", payload |-> realtimeSession])
         w2 == [w1 EXCEPT !.conn[k].sessionId = realtimeSession.id,
                          !.conn[k].audio = "audio" \in realtimeSession.modalities,
                          !.conn[k].closure = session,
                          !.conn[k].st = "awaitingMedia"]
     IN /\ session' = w2.session
        /\ conn' = w2.conn
        /\ chan' = w2.chan
  /\ owner' = k
  /\ UNCHANGED <<reduced, inbox, emitter, wire, calls, nSends, nextUuid, now, uncaught>>

Connect(k, realtimeSession) ==
  /\ conn[k].st = "unused"
  /\ k > 1 => conn[k - 1].st # "unused"
  /\ Step
  /\ LET w1 == dispatch(World, [type |-> "INIT_SESSION", payload |-> realtimeSession])
         w2 == [w1 EXCEPT !.conn[k].sessionId = realtimeSession.id,
                          !.conn[k].audio = "audio" \in realtimeSession.modalities,
                          !.conn[k].closure = session]
         w3 == IF "audio" \in realtimeSession.modalities
               THEN [w2 EXCEPT !.conn[k].st = "awaitingMedia"]
               ELSE SetUpConnection(k, w2)
     IN /\ session' = w3.session
        /\ conn' = w3.conn
        /\ chan' = w3.chan
  /\ owner' = k
  /\ UNCHANGED <<reduced, inbox, emitter, wire, calls, nSends, nextUuid, now, uncaught>>

\* navigator.mediaDevices.getUserMedia resolved: lines 270-294
GetUserMediaResolved(k) ==
  /\ conn[k].st = "awaitingMedia"
  /\ Step
  /\ LET w1 == [World EXCEPT !.conn[k].localTrack = "live"]
         w2 == dispatch(w1, UpdateSession([id |-> conn[k].sessionId, hasAudio |-> TRUE]))
         w3 == SetUpConnection(k, w2)
     IN /\ session' = w3.session
        /\ conn' = w3.conn
        /\ chan' = w3.chan
  /\ UNCHANGED <<reduced, inbox, emitter, wire, calls, nSends, nextUuid, now, uncaught, owner>>

\* getUserMedia rejected: lines 295-298, then the catch of lines 676-685
GetUserMediaRejected(k) ==
  /\ conn[k].st = "awaitingMedia"
  /\ Step
  /\ conn' = [conn EXCEPT ![k].st = "rejected",
                          ![k][IF conn[k].iceTimeoutId = 1 THEN "timer1" ELSE "timer2"] =
                             IF conn[k].iceTimeoutId # 0 /\ @ = "armed" THEN "cleared" ELSE @]
  /\ UNCHANGED <<reduced, inbox, emitter, session, chan, wire, calls, nSends, nextUuid, now, uncaught, owner>>

----------------------------------------------------------------------------
(* The transport-negotiation engine: negotiation and ICE monitoring *)

\* pc.onnegotiationneeded fired: createOffer, setLocalDescription, fetch (lines 486-508)
OnNegotiationNeeded(k) ==
  /\ conn[k].st = "resolved"
  /\ conn[k].neg = "idle"
  /\ Step
  /\ conn' = [conn EXCEPT ![k].neg = "pending"]
  /\ UNCHANGED <<reduced, inbox, emitter, session, chan, wire, calls, nSends, nextUuid, now, uncaught, owner>>

\* the answer arrived with a 2xx status and setRemoteDescription resolved (lines 516-529)
NegotiationCompleted(k) ==
  /\ conn[k].neg = "pending"
  /\ Step
  /\ conn' = [conn EXCEPT ![k].neg = "done"]
  /\ UNCHANGED <<reduced, inbox, emitter, session, chan, wire, calls, nSends, nextUuid, now, uncaught, owner>>

\* createOffer, setLocalDescription, the exchange or setRemoteDescription failed:
\* the catch of lines 530-536 logs and rethrows out of the async event handler
NegotiationFailed(k) ==
  /\ conn[k].neg = "pending"
  /\ Step
  /\ conn' = [conn EXCEPT ![k].neg = "failed"]
  /\ uncaught' = uncaught \cup {<<"negotiation", k>>}
  /\ UNCHANGED <<reduced, inbox, emitter, session, chan, wire, calls, nSends, nextUuid, now, owner>>

\* the ICE connection states the engine moves to from state s; it is back at `new`
\* when its transports are gone or start over
IceNext(s) ==
  CASE s = "new" -> {"checking", "closed"}
    [] s = "checking" -> {"connected", "failed", "closed"}
    [] s = "connected" -> {"completed", "disconnected", "failed", "closed", "new"}
    [] s = "completed" -> {"connected", "disconnected", "failed", "closed", "new"}
    [] s = "disconnected" -> {"connected", "completed", "failed", "closed", "new"}
    [] s = "failed" -> {"checking", "closed", "new"}
    [] s = "closed" -> {}

\* if (iceTimeoutId) { clearTimeout(iceTimeoutId); iceTimeoutId = null; }
ClearIceTimeout(k, w) ==
  LET id == w.conn[k].iceTimeoutId
      w1 == IF id = 1 /\ w.conn[k].timer1 = "armed" THEN [w EXCEPT !.conn[k].timer1 = "cleared"]
            ELSE IF id = 2 /\ w.conn[k].timer2 = "armed" THEN [w EXCEPT !.conn[k].timer2 = "cleared"]
            ELSE w
  IN IF id # 0 THEN [w1 EXCEPT !.conn[k].iceTimeoutId = 0] ELSE w

StatusChange(status, t) ==
  UpdateSession([connectionStatus |-> status, lastStateChange |-> Time(t)])

\* the states the switch of lines 387-470 has a case for
HandledIceStates == {"checking", "connected", "completed", "disconnected", "failed", "closed"}

\* pc.oniceconnectionstatechange of connect() k, with pc.iceConnectionState = state
monitorConnectionState(k, state, w, t) ==
  CASE state = "checking" -> dispatch(w, StatusChange("CONNECTING", t))
    [] state \in {"connected", "completed"} ->
         LET w1 == dispatch(ClearIceTimeout(k, w), StatusChange("CONNECTED", t))
         IN [w1 EXCEPT !.conn[k].reachedConnected = TRUE]
    [] state = "disconnected" ->
         LET w1 == dispatch(w, StatusChange("DISCONNECTED", t))
         IN [w1 EXCEPT !.conn[k].reconnTimers = @ + 1]
    [] state = "failed" ->
         cleanupWebRTCResources(k, dispatch(ClearIceTimeout(k, w), StatusChange("FAILED", t)))
    [] state = "closed" ->
         cleanupWebRTCResources(k, dispatch(ClearIceTimeout(k, w), StatusChange("CLOSED", t)))
    [] OTHER -> w

OnIceConnectionStateChange(k, state) ==
  /\ conn[k].st = "resolved"
  /\ conn[k].neg = "done"
  /\ state \in IceNext(conn[k].ice)
  /\ state = "disconnected" => conn[k].reconnTimers + conn[k].reconnInFlight < MaxPending
  /\ Step
  /\ LET w == monitorConnectionState(k, state, [World EXCEPT !.conn[k].ice = state], now)
     IN /\ session' = w.session
        /\ conn' = w.conn
        /\ chan' = w.chan
  /\ uncaught' = IF state \in HandledIceStates THEN uncaught ELSE uncaught \cup {<<"ice", k>>}
  /\ UNCHANGED <<reduced, inbox, emitter, wire, calls, nSends, nextUuid, now, owner>>

\* the timer of lines 370-376 fires
FirstTimerFires(k) ==
  /\ conn[k].timer1 = "armed"
  /\ LET w1 == [World EXCEPT !.conn[k].timer1 = "fired"]
         w2 == IF conn[k].ice # "connected"
               THEN [cleanupWebRTCResources(k, w1) EXCEPT
                       !.conn[k].lateTimeout = @ \/ conn[k].reachedConnected]
               ELSE w1
     IN /\ session' = w2.session
        /\ conn' = w2.conn
        /\ chan' = w2.chan
  /\ UNCHANGED <<reduced, inbox, emitter, wire, calls, nSends, nextUuid, now, uncaught, owner>>

IceTimeoutFirst(k) == Step /\ FirstTimerFires(k)

\* the timer of lines 474-477 fires
SecondTimerFires(k) ==
  /\ conn[k].timer2 = "armed"
  /\ LET w1 == [World EXCEPT !.conn[k].timer2 = "fired"]
         w2 == [cleanupWebRTCResources(k, w1) EXCEPT
                  !.conn[k].lateTimeout = @ \/ conn[k].reachedConnected]
     IN /\ session' = w2.session
        /\ conn' = w2.conn
        /\ chan' = w2.chan
  /\ UNCHANGED <<reduced, inbox, emitter, wire, calls, nSends, nextUuid, now, uncaught, owner>>

IceTimeoutSecond(k) == Step /\ SecondTimerFires(k)

----------------------------------------------------------------------------
(* Reconnection *)

\* the 2 s timer of lines 425-434 fires: RECONNECTING, then attemptReconnection(pc)
\* runs up to its first await
ReconnectTimerFires(k) ==
  /\ conn[k].reconnTimers > 0
  /\ LET w1 == dispatch(World, StatusChange("RECONNECTING", now))
         w2 == [w1 EXCEPT !.conn[k].reconnTimers = @ - 1,
                          !.conn[k].reconnInFlight = @ + 1]
     IN /\ session' = w2.session
        /\ conn' = w2.conn
        /\ chan' = w2.chan
  /\ UNCHANGED <<reduced, inbox, emitter, wire, calls, nSends, nextUuid, now, uncaught, owner>>

ReconnectDelayElapsed(k) == Step /\ ReconnectTimerFires(k)

\* attemptReconnection without the dispatch of lines 352-359
attemptReconnection_WithoutDispatch(k, w, t) == w

\* attemptReconnection: the answer arrived and was applied (lines 335-359)
attemptReconnection(k, w, t) ==
  dispatch(w, UpdateSession([id |-> w.conn[k].sessionId,
                             connectionStatus |-> "CONNECTED",
                             lastStateChange |-> Time(t)]))

AttemptSucceeds(k) ==
  /\ conn[k].reconnInFlight > 0
  /\ conn[k].ice # "closed"
  /\ LET w1 == attemptReconnection(k, World, now)
         w2 == [w1 EXCEPT !.conn[k].reconnInFlight = @ - 1,
                          !.conn[k].lastAttempt = "succeeded"]
     IN /\ session' = w2.session
        /\ conn' = w2.conn
        /\ chan' = w2.chan
  /\ UNCHANGED <<reduced, inbox, emitter, wire, calls, nSends, nextUuid, now, uncaught, owner>>

ReconnectionSucceeded(k) == Step /\ AttemptSucceeds(k)

\* attemptReconnection: a step failed; the catch of lines 360-365 logs
AttemptFails(k) ==
  /\ conn[k].reconnInFlight > 0
  /\ conn' = [conn EXCEPT ![k].reconnInFlight = @ - 1, ![k].lastAttempt = "failed"]
  /\ UNCHANGED <<reduced, inbox, emitter, session, chan, wire, calls, nSends, nextUuid, now, uncaught, owner>>

ReconnectionFailed(k) == Step /\ AttemptFails(k)

----------------------------------------------------------------------------
(* Tracks and the data channel of connect() k *)

\* pc.ontrack (lines 540-554)
OnTrack(k) ==
  /\ conn[k].st = "resolved"
  /\ conn[k].neg = "done"
  /\ conn[k].remoteTrack = "none"
  /\ Step
  /\ LET w1 == dispatch(World, UpdateSession([mediaStream |-> Stream(k)]))
         w2 == [w1 EXCEPT !.conn[k].remoteTrack = "live"]
     IN /\ session' = w2.session
        /\ conn' = w2.conn
        /\ chan' = w2.chan
  /\ UNCHANGED <<reduced, inbox, emitter, wire, calls, nSends, nextUuid, now, uncaught, owner>>

\* the remote track ends by itself: event.track.onended (lines 542-546)
RemoteTrackEnded(k) ==
  /\ conn[k].remoteTrack = "live"
  /\ Step
  /\ LET w == StopTracks(k, World)
     IN /\ session' = w.session
        /\ conn' = w.conn
        /\ chan' = w.chan
  /\ UNCHANGED <<reduced, inbox, emitter, wire, calls, nSends, nextUuid, now, uncaught, owner>>

\* the local audio track ends: track.onended (lines 284-293)
LocalTrackEnded(k) ==
  /\ conn[k].localTrack = "live"
  /\ Step
  /\ LET w1 == dispatch(World, UpdateSession([id |-> conn[k].sessionId, hasAudio |-> FALSE]))
         w2 == [w1 EXCEPT !.conn[k].localTrack = "ended"]
     IN /\ session' = w2.session
        /\ conn' = w2.conn
        /\ chan' = w2.chan
  /\ UNCHANGED <<reduced, inbox, emitter, wire, calls, nSends, nextUuid, now, uncaught, owner>>

\* dc 'open' listener (lines 557-566)
DataChannelOpen(k) ==
  /\ chan[Dc(k)] = "connecting"
  /\ conn[k].ice \in {"connected", "completed"}
  /\ Step
  /\ LET w1 == dispatch([World EXCEPT !.chan[Dc(k)] = "open"],
                        UpdateSession([connectionStatus |-> "CONNECTED"]))
         w2 == [w1 EXCEPT !.conn[k].reachedConnected = TRUE]
     IN /\ session' = w2.session
        /\ conn' = w2.conn
        /\ chan' = w2.chan
  /\ UNCHANGED <<reduced, inbox, emitter, wire, calls, nSends, nextUuid, now, uncaught, owner>>

\* dc 'close' listener (lines 672-675): disconnect() of the render connect() ran in
DataChannelClose(k) ==
  /\ chan[Dc(k)] \in {"connecting", "open"}
  /\ Step
  /\ LET w == disconnect(k, [World EXCEPT !.chan[Dc(k)] = "closed"], now)
     IN /\ session' = w.session
        /\ conn' = w.conn
        /\ chan' = w.chan
  /\ UNCHANGED <<reduced, inbox, emitter, wire, calls, nSends, nextUuid, now, uncaught, owner>>

----------------------------------------------------------------------------
(* The dc 'message' listener *)

\* the texts item.arguments takes here
ArgumentTexts == {"{}", "{\"city\":\"Paris\"}", "{\"city\":"}

\* JSON.parse(text) on ArgumentTexts: the object, or a SyntaxError
JsonParse(text) ==
  CASE text = "{}" -> [ok |-> TRUE, value |-> <<>>]
    [] text = "{\"city\":\"Paris\"}" -> [ok |-> TRUE, value |-> [city |-> "Paris"]]
    [] text = "{\"city\":" -> [ok |-> FALSE]

\* the first element in place of the largest
MaxOf_First(list) == list[1]

RECURSIVE MaxOf(_)
\* Math.max(...list) of a non-empty list
MaxOf(list) ==
  IF Len(list) = 1 THEN list[1]
  ELSE LET m == MaxOf(Tail(list)) IN IF list[1] >= m THEN list[1] ELSE m

\* limits.map((limit) => limit.reset_seconds)
ResetSeconds(limits) == [i \in 1..Len(limits) |-> limits[i].reset_seconds]

\* what the listener leaves: the world, whether it threw, the calls of functionCallHandler
Handled(w, threw, handlerCalls) == [w |-> w, threw |-> threw, handlerCalls |-> handlerCalls]

\* a branch that raises in place of `break`
Break_Raises(w) == Handled(w, TRUE, <<>>)

\* a branch that ends at `break` with nothing dispatched or invoked
Break(w) == Handled(w, FALSE, <<>>)

\* a tokenUsage to which the usage of the message is added
TokenUsage_Accumulated(w, usage) ==
  IF w.session # Null /\ "tokenUsage" \in DOMAIN w.session
  THEN [inputTokens |-> w.session.tokenUsage.inputTokens + usage.input_tokens,
        outputTokens |-> w.session.tokenUsage.outputTokens + usage.output_tokens,
        totalTokens |-> w.session.tokenUsage.totalTokens + usage.total_tokens]
  ELSE [inputTokens |-> usage.input_tokens, outputTokens |-> usage.output_tokens,
        totalTokens |-> usage.total_tokens]

\* the tokenUsage of lines 629-633, which does not read the session
TokenUsage(w, usage) ==
  [inputTokens |-> usage.input_tokens, outputTokens |-> usage.output_tokens,
   totalTokens |-> usage.total_tokens]

\* the switch of lines 576-669 on a parsed event, at time t
HandleEvent(event, w, t) ==
  CASE event.type = "conversation.item.input_audio_transcription.completed" ->
         Handled(dispatch(w, [type |-> "ADD_TRANSCRIPT", payload |-> [transcript |->
                   [content |-> event.transcript, timestamp |-> t,
                    type |-> "input", role |-> "user"]]]), FALSE, <<>>)
    [] event.type = "response.audio_transcript.done" ->
         Handled(dispatch(w, [type |-> "ADD_TRANSCRIPT", payload |-> [transcript |->
                   [content |-> event.transcript, timestamp |-> t,
                    type |-> "output", role |-> "assistant"]]]), FALSE, <<>>)
    [] event.type = "response.output_item.done" ->
         IF event.item.type = "function_call"
         THEN LET parsed == JsonParse(IF Falsy(event.item.arguments)
                                      THEN "{}" ELSE event.item.arguments[2])
              IN IF parsed.ok
                 THEN Handled(w, FALSE, <<[name |-> event.item.name, args |-> parsed.value]>>)
                 ELSE Handled(w, TRUE, <<>>)
         ELSE Break(w)
    [] event.type = "response.done" ->
         \* const usage = responseEvent.response?.usage
         IF "response" \in DOMAIN event /\ "usage" \in DOMAIN event.response
         THEN Handled(dispatch(w, [type |-> "UPDATE_TOKEN_USAGE", payload |->
                        [tokenUsage |-> TokenUsage(w, event.response.usage)]]), FALSE, <<>>)
         ELSE Break(w)
    [] event.type = "rate_limits.updated" ->
         \* Math.max() of no argument is -Infinity, and toISOString of the invalid
         \* Date raises RangeError
         IF event.rate_limits = <<>> THEN Handled(w, TRUE, <<>>)
         ELSE LET maxResetSeconds == MaxOf(ResetSeconds(event.rate_limits))
                  isRateLimited == \E i \in 1..Len(event.rate_limits) :
                                      event.rate_limits[i].remaining <= 0
              IN Handled(dispatch(w, [type |-> "UPDATE_RATE_LIMITS", payload |->
                           [rateLimits |-> event.rate_limits,
                            rateLimitResetTime |-> Time(t + maxResetSeconds * 1000),
                            isRateLimited |-> isRateLimited]]), FALSE, <<>>)
    [] OTHER -> Break(w)

\* a listener that marks the session FAILED when the message is not JSON
messageListener_FailsSession(data, w, t) ==
  IF ~data.json
  THEN Handled(dispatch(w, UpdateSession([connectionStatus |-> "FAILED"])), TRUE, <<>>)
  ELSE HandleEvent(data.event, w, t)

\* the listener of lines 568-670 on e.data: JSON.parse, then the switch
messageListener(data, w, t) ==
  IF ~data.json THEN Handled(w, TRUE, <<>>) ELSE HandleEvent(data.event, w, t)

Json(event) == [json |-> TRUE, event |-> event]

Limit(remaining, reset) == [remaining |-> remaining, reset_seconds |-> reset]

FunctionCall(arguments) ==
  Json([type |-> "response.output_item.done",
        item |-> [type |-> "function_call", name |-> "get_weather", arguments |-> arguments]])

\* the messages the service sends
InboundMessages ==
  { Json([type |-> "conversation.item.input_audio_transcription.completed",
          transcript |-> "hello"]),
    Json([type |-> "response.audio_transcript.done", transcript |-> "hi there"]),
    Json([type |-> "response.output_item.done", item |-> [type |-> "message"]]),
    Json([type |-> "response.done", response |->
            [usage |-> [input_tokens |-> 3, output_tokens |-> 4, total_tokens |-> 7]]]),
    Json([type |-> "response.done", response |->
            [usage |-> [input_tokens |-> 10, output_tokens |-> 20, total_tokens |-> 30]]]),
    Json([type |-> "response.done", response |-> [status |-> "cancelled"]]),
    Json([type |-> "response.done"]),
    Json([type |-> "rate_limits.updated", rate_limits |-> <<>>]),
    Json([type |-> "rate_limits.updated", rate_limits |-> <<Limit(5, 60)>>]),
    Json([type |-> "rate_limits.updated", rate_limits |-> <<Limit(0, 10), Limit(5, 60)>>]),
    Json([type |-> "rate_limits.updated", rate_limits |-> <<Limit(7, 60), Limit(0, 10)>>]),
    Json([type |-> "error", error |-> "invalid_request_error"]),
    Json([type |-> "session.created"]),
    Json([type |-> "input_audio_buffer.speech_started"]),
    [json |-> FALSE] }
    \cup { FunctionCall(a) : a \in {Undefined, Str("")} \cup { Str(x) : x \in ArgumentTexts } }

\* dc 'message' fired on the channel of connect() k
OnMessage(k, data) ==
  /\ chan[Dc(k)] = "open"
  /\ Step
  /\ LET r == messageListener(data, World, now)
     IN /\ session' = r.w.session
        /\ conn' = r.w.conn
        /\ chan' = r.w.chan
        /\ inbox' = <<[n |-> steps + 1, conn |-> k, data |-> data, threw |-> r.threw,
                       handlerCalls |-> r.handlerCalls, before |-> session]>>
        /\ uncaught' = IF r.threw THEN uncaught \cup {<<"message", k>>} ELSE uncaught
  /\ UNCHANGED <<reduced, emitter, wire, calls, nSends, nextUuid, now, owner>>

\* the caller-supplied channel opens or closes
ExtChannelOpen ==
  /\ chan[Ext] = "connecting"
  /\ Step
  /\ chan' = [chan EXCEPT ![Ext] = "open"]
  /\ UNCHANGED <<reduced, inbox, emitter, session, conn, wire, calls, nSends, nextUuid, now, uncaught, owner>>

ExtChannelClose ==
  /\ chan[Ext] = "open"
  /\ Step
  /\ chan' = [chan EXCEPT ![Ext] = "closed"]
  /\ UNCHANGED <<reduced, inbox, emitter, session, conn, wire, calls, nSends, nextUuid, now, uncaught, owner>>

----------------------------------------------------------------------------
(* The facade *)

\* disconnect() called by the UI
Disconnect ==
  /\ Step
  /\ LET w == disconnect(0, World, now)
         w1 == IF session # Null /\ owner # 0
               THEN [w EXCEPT !.conn[owner].tornDown = TRUE,
                              !.conn[owner].pendingAtTeardown =
                                 @ \/ conn[owner].reconnTimers + conn[owner].reconnInFlight > 0]
               ELSE w
     IN /\ session' = w1.session
        /\ conn' = w1.conn
        /\ chan' = w1.chan
  /\ UNCHANGED <<reduced, inbox, emitter, wire, calls, nSends, nextUuid, now, uncaught, owner>>

\* sendClientEvent without the `event_id ||` of line 750: the id is always replaced
sendClientEvent_OverwritesId(event, wr, u, throws) ==
  IF session = Null THEN [wire |-> wr, nextUuid |-> u, threw |-> FALSE]
  ELSE
    LET dataChannel == session.dataChannel IN
    IF dataChannel = NoHandle \/ chan[dataChannel] # "open"
    THEN [wire |-> wr, nextUuid |-> u, threw |-> FALSE]
    ELSE
      LET sent == [event EXCEPT !.event_id = Uuid(u + 1)]
      IN IF throws
         THEN [wire |-> wr, nextUuid |-> u + 1, threw |-> FALSE]
         ELSE [wire |-> [wr EXCEPT ![dataChannel] = Append(@, sent)], nextUuid |-> u + 1,
               threw |-> FALSE]

\* sendClientEvent without the readyState test of line 741
sendClientEvent_IgnoresReadyState(event, wr, u, throws) ==
  IF session = Null THEN [wire |-> wr, nextUuid |-> u, threw |-> FALSE]
  ELSE
    LET dataChannel == session.dataChannel IN
    IF dataChannel = NoHandle
    THEN [wire |-> wr, nextUuid |-> u, threw |-> FALSE]
    ELSE
      LET fresh == Falsy(event.event_id)
          sent == [event EXCEPT !.event_id = IF fresh THEN Uuid(u + 1) ELSE @]
          u1 == IF fresh THEN u + 1 ELSE u
      IN IF throws
         THEN [wire |-> wr, nextUuid |-> u1, threw |-> FALSE]
         ELSE [wire |-> [wr EXCEPT ![dataChannel] = Append(@, sent)], nextUuid |-> u1,
               threw |-> FALSE]

\* sendClientEvent without the try/catch of lines 752-764: an error of
\* dataChannel.send leaves the call
sendClientEvent_WithoutCatch(event, wr, u, throws) ==
  IF session = Null THEN [wire |-> wr, nextUuid |-> u, threw |-> FALSE]
  ELSE
    LET dataChannel == session.dataChannel IN
    IF dataChannel = NoHandle \/ chan[dataChannel] # "open"
    THEN [wire |-> wr, nextUuid |-> u, threw |-> FALSE]
    ELSE
      LET fresh == Falsy(event.event_id)
          sent == [event EXCEPT !.event_id = IF fresh THEN Uuid(u + 1) ELSE @]
          u1 == IF fresh THEN u + 1 ELSE u
      IN IF throws
         THEN [wire |-> wr, nextUuid |-> u1, threw |-> TRUE]
         ELSE [wire |-> [wr EXCEPT ![dataChannel] = Append(@, sent)], nextUuid |-> u1,
               threw |-> FALSE]

\* sendClientEvent(event) (lines 733-765) on the wire wr with u uuids drawn so far;
\* throws: whether dataChannel.send raises.  The result is the wire and the uuid count
\* after the call, and whether an error left the call.
sendClientEvent(event, wr, u, throws) ==
  IF session = Null THEN [wire |-> wr, nextUuid |-> u, threw |-> FALSE]
  ELSE
    LET dataChannel == session.dataChannel IN
    IF dataChannel = NoHandle \/ chan[dataChannel] # "open"
    THEN [wire |-> wr, nextUuid |-> u, threw |-> FALSE]
    ELSE
      LET fresh == Falsy(event.event_id)
          sent == [event EXCEPT !.event_id = IF fresh THEN Uuid(u + 1) ELSE @]
          u1 == IF fresh THEN u + 1 ELSE u
      IN IF throws
         THEN [wire |-> wr, nextUuid |-> u1, threw |-> FALSE]
         ELSE [wire |-> [wr EXCEPT ![dataChannel] = Append(@, sent)], nextUuid |-> u1,
               threw |-> FALSE]

\* whether dataChannel.send raised in an earlier sendClientEvent call
RaisedBefore == calls # <<>> /\ (calls[Len(calls)].raised \/ calls[Len(calls)].throws)

\* what a sendClientEvent call is given and what it sees, for the properties
CallRecord(event, throws) ==
  [ event |-> event,
    open |-> session # Null /\ session.dataChannel # NoHandle /\ chan[session.dataChannel] = "open",
    throws |-> throws,
    raised |-> RaisedBefore ]

\* an error that left a facade call reaches the caller
Escaped(threw) == IF threw THEN uncaught \cup {<<"send", 0>>} ELSE uncaught

Send(event, u, throws) ==
  LET r == sendClientEvent(event, wire, u, throws) IN
  /\ wire' = r.wire
  /\ nextUuid' = r.nextUuid
  /\ uncaught' = Escaped(r.threw)

\* dataChannel.send can raise only when it is reached
CanThrow == session # Null /\ session.dataChannel # NoHandle /\ chan[session.dataChannel] = "open"

SendClientEvent(type, id, throws) ==
  /\ nSends < MaxSends
  /\ throws => CanThrow
  /\ Step
  /\ Send([type |-> type, event_id |-> id], nextUuid, throws)
  /\ calls' = <<CallRecord([type |-> type, event_id |-> id], throws)>>
  /\ nSends' = nSends + 1
  /\ UNCHANGED <<reduced, inbox, emitter, session, conn, chan, now, owner>>

\* the builders of lines 771-835: event_id: crypto.randomUUID(), then sendClientEvent
Built(type, u) == [type |-> type, event_id |-> Uuid(u + 1)]

BuilderTypes ==
  { "conversation.item.create",     \* sendTextMessage
    "response.create",              \* createResponse
    "input_audio_buffer.append",    \* sendAudioChunk
    "input_audio_buffer.commit" }   \* commitAudioBuffer

SendBuilt(type, throws) ==
  /\ nSends < MaxSends
  /\ throws => CanThrow
  /\ Step
  /\ Send(Built(type, nextUuid), nextUuid + 1, throws)
  /\ calls' = <<CallRecord(Built(type, nextUuid), throws)>>
  /\ nSends' = nSends + 1
  /\ UNCHANGED <<reduced, inbox, emitter, session, conn, chan, now, owner>>

\* Chat.tsx, onRecordingStopped: commitAudioBuffer(); createResponse();
OnRecordingStopped ==
  /\ nSends + 2 <= MaxSends
  /\ session # Null
  /\ "audio" \in session.modalities
  /\ Step
  /\ LET commit == Built("input_audio_buffer.commit", nextUuid)
         r1 == sendClientEvent(commit, wire, nextUuid + 1, FALSE)
         create == Built("response.create", r1.nextUuid)
         r2 == sendClientEvent(create, r1.wire, r1.nextUuid + 1, FALSE)
     IN /\ wire' = r2.wire
        /\ nextUuid' = r2.nextUuid
        /\ calls' = <<CallRecord(commit, FALSE), CallRecord(create, FALSE)>>
        /\ nSends' = nSends + 2
        /\ uncaught' = Escaped(r1.threw \/ r2.threw)
  /\ UNCHANGED <<reduced, inbox, emitter, session, conn, chan, now, owner>>

\* time passes
Tick ==
  /\ now < 1000 * (MaxTime + 1)
  /\ now' = now + 1000
  /\ UNCHANGED <<reduced, inbox, emitter, session, conn, chan, wire, calls, nSends, nextUuid, uncaught, owner, steps>>

\* the session objects callers hand to connect()
SessionConfigs(k) ==
  { RealtimeSession(k, {"text"}, NoStatus, NoHandle, NoTime),
    RealtimeSession(k, {"text", "audio"}, NoStatus, NoHandle, NoTime),
    RealtimeSession(k, {"text"}, "CONNECTED", Ext, Time(now)) }

----------------------------------------------------------------------------
(* The store on its own: sessionReducer applied to actions of every type *)

\* before any action
NothingReduced == [action |-> [type |-> "none"], before |-> Null, onNull |-> {}]

\* the SessionAction values applied here
SessionActions ==
  { [type |-> "INIT_SESSION", payload |-> c] : c \in SessionConfigs(1) }
  \cup { UpdateSession([connectionStatus |-> "CONNECTED"]),
         UpdateSession([id |-> 1, hasAudio |-> TRUE]),
         [type |-> "ADD_TRANSCRIPT", payload |-> [transcript |->
            [content |-> "hello", timestamp |-> now, type |-> "input", role |-> "user"]]],
         [type |-> "UPDATE_TOKEN_USAGE", payload |-> [tokenUsage |->
            [inputTokens |-> 3, outputTokens |-> 4, totalTokens |-> 7]]],
         [type |-> "MUTE_SESSION_AUDIO"],
         [type |-> "UNMUTE_SESSION_AUDIO"],
         [type |-> "UPDATE_RATE_LIMITS", payload |->
            [rateLimits |-> <<Limit(5, 60)>>, rateLimitResetTime |-> Time(now + 60000),
             isRateLimited |-> FALSE]] }

\* useReducer's dispatch(action): the state becomes sessionReducer(state, action)
Dispatch(action) ==
  /\ Step
  /\ session' = sessionReducer(session, action)
  /\ reduced' = [action |-> action, before |-> session,
                 onNull |-> IF session = Null
                            THEN reduced.onNull \cup {action.type} ELSE reduced.onNull]
  /\ UNCHANGED <<conn, chan, wire, calls, nSends, nextUuid, now, uncaught, owner, inbox, emitter>>

----------------------------------------------------------------------------
(* EventEmitter (utils/logger.ts) *)

\* the RealtimeEventType values listeners are registered for here
EventTypes == {"error", "response.done"}

\* the callbacks; callback 1 throws when invoked
Callbacks == 1..MaxCallbacks
Throws(cb) == cb = 1

\* new Map()
NoListeners == [t \in {} |-> <<>>]

Range(q) == { q[i] : i \in 1..Len(q) }

\* on without the Set: the callback is added again
on_Appends(ls, eventType, callback) ==
  LET callbacks == IF eventType \in DOMAIN ls THEN ls[eventType] ELSE <<>>
  IN [t \in DOMAIN ls \cup {eventType} |->
        IF t = eventType THEN Append(callbacks, callback) ELSE ls[t]]

\* on(eventType, callback), lines 59-64: Set.add keeps insertion order and adds a
\* callback once
on(ls, eventType, callback) ==
  LET callbacks == IF eventType \in DOMAIN ls THEN ls[eventType] ELSE <<>>
      added == IF callback \in Range(callbacks) THEN callbacks ELSE Append(callbacks, callback)
  IN [t \in DOMAIN ls \cup {eventType} |-> IF t = eventType THEN added ELSE ls[t]]

\* this.listeners.delete(eventType)
DeleteType(ls, eventType) == [t \in DOMAIN ls \ {eventType} |-> ls[t]]

\* off without `if (!callback)`: off(T) removes nothing
off_KeepsWithoutCallback(ls, eventType, callback) ==
  IF callback = 0 THEN ls
  ELSE IF eventType \in DOMAIN ls
  THEN LET left == SelectSeq(ls[eventType], LAMBDA c : c # callback)
       IN IF left = <<>> THEN DeleteType(ls, eventType)
          ELSE [ls EXCEPT ![eventType] = left]
  ELSE ls

\* off(eventType, callback?), lines 69-83; callback 0 is no callback
off(ls, eventType, callback) ==
  IF callback = 0 THEN DeleteType(ls, eventType)
  ELSE IF eventType \in DOMAIN ls
  THEN LET left == SelectSeq(ls[eventType], LAMBDA c : c # callback)
       IN IF left = <<>> THEN DeleteType(ls, eventType)
          ELSE [ls EXCEPT ![eventType] = left]
  ELSE ls

\* emit without the try/catch of lines 92-96: the first callback that throws ends the
\* loop and the error leaves emit
emit_WithoutCatch(ls, eventType) ==
  IF eventType \in DOMAIN ls
  THEN LET callbacks == ls[eventType]
           throwing == { i \in 1..Len(callbacks) : Throws(callbacks[i]) }
           first == CHOOSE i \in throwing : \A j \in throwing : i <= j
       IN IF throwing = {}
          THEN [called |-> callbacks, caught |-> 0, threw |-> FALSE]
          ELSE [called |-> SubSeq(callbacks, 1, first), caught |-> 0, threw |-> TRUE]
  ELSE [called |-> <<>>, caught |-> 0, threw |-> FALSE]

\* emit(event), lines 88-99: the callbacks invoked, in order, and the errors caught;
\* emit itself raises nothing
emit(ls, eventType) ==
  IF eventType \in DOMAIN ls
  THEN [called |-> ls[eventType],
        caught |-> Len(SelectSeq(ls[eventType], Throws)),
        threw |-> FALSE]
  ELSE [called |-> <<>>, caught |-> 0, threw |-> FALSE]

\* the record of an operation and of the listeners it found; turn alternates so that
\* every operation shows
Operation(op, eventType, callback, result) ==
  [turn |-> 1 - invoked.turn, op |-> op, type |-> eventType, callback |-> callback,
   result |-> result, before |-> listeners]

NoResult == [called |-> <<>>, caught |-> 0, threw |-> FALSE]

Program == <<session, conn, chan, wire, calls, nSends, nextUuid, now, uncaught, owner, steps,
             inbox, reduced>>

On(eventType, callback) ==
  /\ listeners' = on(listeners, eventType, callback)
  /\ invoked' = Operation("on", eventType, callback, NoResult)
  /\ registrations' = [registrations EXCEPT ![<<eventType, callback>>] = IF @ = 0 THEN 1 ELSE 2]
  /\ UNCHANGED Program

Off(eventType, callback) ==
  /\ listeners' = off(listeners, eventType, callback)
  /\ invoked' = Operation("off", eventType, callback, NoResult)
  /\ registrations' =
       [p \in EventTypes \X Callbacks |->
          IF p[1] = eventType /\ (callback = 0 \/ callback = p[2])
          THEN 0 ELSE registrations[p]]
  /\ UNCHANGED Program

Emit(eventType) ==
  /\ invoked' = Operation("emit", eventType, 0, emit(listeners, eventType))
  /\ UNCHANGED <<listeners, registrations>>
  /\ UNCHANGED Program

\* removeAll(), lines 104-106
RemoveAll ==
  /\ listeners' = NoListeners
  /\ invoked' = Operation("removeAll", "", 0, NoResult)
  /\ registrations' = [p \in EventTypes \X Callbacks |-> 0]
  /\ UNCHANGED Program

----------------------------------------------------------------------------
Init ==
  /\ session = Null
  /\ conn = [k \in ConnIds |-> NewConn]
  /\ chan = [c \in Channels |-> IF c = Ext THEN "connecting" ELSE "none"]
  /\ wire = [c \in Channels |-> <<>>]
  /\ calls = <<>>
  /\ nSends = 0
  /\ nextUuid = 0
  /\ now = 1000
  /\ uncaught = {}
  /\ owner = 0
  /\ steps = 0
  /\ inbox = <<>>
  /\ reduced = NothingReduced
  /\ listeners = NoListeners
  /\ invoked = [turn |-> 0, op |-> "new"]
  /\ registrations = [p \in EventTypes \X Callbacks |-> 0]

\* the caller: connect() and disconnect()
Caller ==
  \/ \E k \in ConnIds : \E realtimeSession \in SessionConfigs(k) : Connect(k, realtimeSession)
  \/ Disconnect

\* local media capture
Capture ==
  \/ \E k \in ConnIds : GetUserMediaResolved(k)
  \/ \E k \in ConnIds : GetUserMediaRejected(k)

\* the transport-negotiation engine: negotiation, ICE, timers, reconnection, data channel
Engine ==
  \/ \E k \in ConnIds : OnNegotiationNeeded(k)
  \/ \E k \in ConnIds : NegotiationCompleted(k)
  \/ \E k \in ConnIds : NegotiationFailed(k)
  \/ \E k \in ConnIds : \E state \in IceStates : OnIceConnectionStateChange(k, state)
  \/ \E k \in ConnIds : IceTimeoutFirst(k)
  \/ \E k \in ConnIds : IceTimeoutSecond(k)
  \/ \E k \in ConnIds : ReconnectDelayElapsed(k)
  \/ \E k \in ConnIds : ReconnectionSucceeded(k)
  \/ \E k \in ConnIds : ReconnectionFailed(k)
  \/ \E k \in ConnIds : DataChannelOpen(k)
  \/ \E k \in ConnIds : DataChannelClose(k)

\* media tracks
Tracks ==
  \/ \E k \in ConnIds : OnTrack(k)
  \/ \E k \in ConnIds : RemoteTrackEnded(k)
  \/ \E k \in ConnIds : LocalTrackEnded(k)

Sender ==
  \/ ExtChannelOpen
  \/ ExtChannelClose
  \/ \E id \in {Undefined, Str(""), Str("X")} : \E throws \in BOOLEAN :
       SendClientEvent("session.update", id, throws)
  \/ \E type \in BuilderTypes : \E throws \in BOOLEAN : SendBuilt(type, throws)
  \/ OnRecordingStopped

\* connection lifecycle
Next == Caller \/ Capture \/ Engine

Spec == Init /\ [][Next]_vars

\* the connection comes up and goes down, without timeouts or reconnection
Transport ==
  \/ \E k \in ConnIds : GetUserMediaResolved(k)
  \/ \E k \in ConnIds : OnNegotiationNeeded(k)
  \/ \E k \in ConnIds : NegotiationCompleted(k)
  \/ \E k \in ConnIds : \E state \in {"checking", "connected"} :
       OnIceConnectionStateChange(k, state)
  \/ \E k \in ConnIds : DataChannelOpen(k)

\* inbound messages
Inbound == \E k \in ConnIds : \E data \in InboundMessages : OnMessage(k, data)

SendNext == Caller \/ Transport \/ Sender
SendSpec == Init /\ [][SendNext]_vars

FacadeNext == Caller \/ Sender
FacadeSpec == Init /\ [][FacadeNext]_vars

\* the EventEmitter on its own
EmitterNext ==
  \/ \E t \in EventTypes : \E cb \in Callbacks : On(t, cb)
  \/ \E t \in EventTypes : \E cb \in Callbacks \cup {0} : Off(t, cb)
  \/ \E t \in EventTypes : Emit(t)
  \/ RemoveAll

EmitterSpec == Init /\ [][EmitterNext]_vars

\* the session comes up and the service sends messages
InboundNext == Caller \/ Transport \/ Inbound
InboundSpec == Init /\ [][InboundNext]_vars

\* the same, after the application registered callback 2 for `error` events
InitSubscribed ==
  /\ session = Null
  /\ conn = [k \in ConnIds |-> NewConn]
  /\ chan = [c \in Channels |-> IF c = Ext THEN "connecting" ELSE "none"]
  /\ wire = [c \in Channels |-> <<>>]
  /\ calls = <<>>
  /\ nSends = 0
  /\ nextUuid = 0
  /\ now = 1000
  /\ uncaught = {}
  /\ owner = 0
  /\ steps = 0
  /\ inbox = <<>>
  /\ reduced = NothingReduced
  /\ listeners = on(NoListeners, "error", 2)
  /\ invoked = [turn |-> 1, op |-> "on", type |-> "error", callback |-> 2,
                result |-> NoResult, before |-> NoListeners]
  /\ registrations = [p \in EventTypes \X Callbacks |-> IF p = <<"error", 2>> THEN 1 ELSE 0]

SubscribedSpec == InitSubscribed /\ [][InboundNext]_vars

\* the caller's connect() and disconnect() while the clock advances
TimingNext == Caller \/ Tick
TimingSpec == Init /\ [][TimingNext]_vars

\* the store on its own
ReducerNext == \E action \in SessionActions : Dispatch(action)
ReducerSpec == Init /\ [][ReducerNext]_vars

\* sessions with their local and remote media tracks
MediaNext ==
  \/ Caller
  \/ Capture
  \/ \E k \in ConnIds : OnNegotiationNeeded(k)
  \/ \E k \in ConnIds : NegotiationCompleted(k)
  \/ Tracks

MediaSpec == Init /\ [][MediaNext]_vars

\* Timers and signaling exchanges of connect() k that are due: the host runs a timer
\* callback once its delay elapsed and settles every fetch, however many caller
\* operations and transport events came before.
ReconnectTimerDue(k) == ReconnectTimerFires(k) /\ UNCHANGED steps
EstablishmentTimerDue(k) == (FirstTimerFires(k) \/ SecondTimerFires(k)) /\ UNCHANGED steps
ExchangeSettles(k) == (AttemptSucceeds(k) \/ AttemptFails(k)) /\ UNCHANGED steps

Due ==
  \/ \E k \in ConnIds : ReconnectTimerDue(k)
  \/ \E k \in ConnIds : EstablishmentTimerDue(k)
  \/ \E k \in ConnIds : ExchangeSettles(k)

\* the connection lifecycle under fair scheduling of timers and signaling completions
FairNext == Next \/ Due
FairSpec ==
  /\ Init
  /\ [][FairNext]_vars
  /\ \A k \in ConnIds : WF_vars(ReconnectTimerDue(k))
  /\ \A k \in ConnIds : WF_vars(EstablishmentTimerDue(k))
  /\ \A k \in ConnIds : WF_vars(ExchangeSettles(k))

----------------------------------------------------------------------------
(* Properties: connection lifecycle *)

\* C1: at most one reconnection attempt is scheduled or in flight per session, even
\* when `disconnected` fires again before the 2 s delay elapsed or the attempt ended.
C1_AtMostOneReconnection ==
  \A k \in ConnIds : conn[k].reconnTimers + conn[k].reconnInFlight <= 1

\* C2: once a handler of a connection dispatched CONNECTED (ICE connected/completed or
\* data-channel open), no establishment timer of that connection fires and runs cleanup.
C2_NoTimeoutAfterConnected ==
  \A k \in ConnIds : ~conn[k].lateTimeout

\* the table of section 4.1
TableStatus(state) ==
  CASE state = "checking" -> "CONNECTING"
    [] state \in {"connected", "completed"} -> "CONNECTED"
    [] state = "disconnected" -> "DISCONNECTED"
    [] state = "failed" -> "FAILED"
    [] state = "closed" -> "CLOSED"
    [] OTHER -> NoStatus

\* C3: after every ICE connection-state event connectionStatus is the table's value
\* for the new state (RECONNECTING once the delay after `disconnected` elapsed), and no
\* connectionStatus outside the six values is observable on a session.
C3_StatusFollowsTable ==
  [][ /\ session' # Null => session'.connectionStatus \in ConnectionStatus
      /\ \A k \in ConnIds :
           /\ conn'[k].ice # conn[k].ice =>
                session'.connectionStatus = TableStatus(conn'[k].ice)
           /\ conn'[k].reconnTimers < conn[k].reconnTimers =>
                session'.connectionStatus = "RECONNECTING" ]_vars

\* a step of the reconnection of connect() k: its delay elapsed or its exchange settled
ReconnectionStep(k) ==
  \/ conn'[k].reconnTimers < conn[k].reconnTimers
  \/ conn'[k].reconnInFlight < conn[k].reconnInFlight

\* C4: after disconnect() tore the session down, the reconnection delay timer and the
\* completion of a reconnection exchange of that session leave the snapshot unchanged.
C4_LateSignalingDiscarded ==
  [][ \A k \in ConnIds :
        (owner = k /\ conn[k].pendingAtTeardown /\ ReconnectionStep(k)) => session' = session ]_vars

\* C5: when local audio capture fails, connect() rejects and the session is what it
\* was before the call.
C5_CaptureFailureLeavesNoSession ==
  [][ \A k \in ConnIds :
        (conn[k].st = "awaitingMedia" /\ conn'[k].st = "rejected") =>
          session' = conn[k].closure ]_vars

\* C6: a failure of the initial offer/answer exchange rejects connect(), and connect()
\* does not resolve before the outcome of the initial handshake is known.
C6_HandshakeFailureRejectsConnect ==
  \A k \in ConnIds :
    /\ conn[k].neg = "failed" => conn[k].st = "rejected"
    /\ conn[k].st = "resolved" => conn[k].neg \in {"done", "failed"}

----------------------------------------------------------------------------
(* Properties: outbound events *)

\* the step is one sendClientEvent call / the two calls of onRecordingStopped
OneCallStep == nSends' = nSends + 1
TwoCallStep == nSends' = nSends + 2

\* the control channel created by the connect() of the current session is open
OwnChannelOpen == owner # 0 /\ chan[Dc(owner)] = "open"

Last(q) == q[Len(q)]

\* C7: once the data channel created by connect() for the session is open, a
\* sendClientEvent(e) call hands exactly one message carrying e to that channel.
C7_SendReachesOwnChannel ==
  [][ (OneCallStep /\ OwnChannelOpen /\ ~calls'[1].throws) =>
        /\ Len(wire'[Dc(owner)]) = Len(wire[Dc(owner)]) + 1
        /\ Last(wire'[Dc(owner)]).type = calls'[1].event.type ]_vars

\* C8: commitAudioBuffer() followed by createResponse(), made while the control
\* channel of the session is open, hands exactly `input_audio_buffer.commit` then
\* `response.create` to that channel.
C8_CommitThenCreateOnTheWire ==
  [][ (TwoCallStep /\ OwnChannelOpen) =>
        /\ Len(wire'[Dc(owner)]) = Len(wire[Dc(owner)]) + 2
        /\ wire'[Dc(owner)][Len(wire[Dc(owner)]) + 1].type = "input_audio_buffer.commit"
        /\ wire'[Dc(owner)][Len(wire[Dc(owner)]) + 2].type = "response.create" ]_vars

\* a sendClientEvent call whose message went out: the channel was open, send did not raise
Delivered == OneCallStep /\ calls'[1].open /\ ~calls'[1].throws

\* the message a Delivered step put on the wire
Outgoing == Last(wire'[session.dataChannel])

\* id was drawn by crypto.randomUUID() in this step and is on no earlier message
FreshId(id) ==
  /\ nextUuid' > nextUuid
  /\ id = Uuid(nextUuid')
  /\ id # Str("")
  /\ \A c \in Channels : \A i \in 1..Len(wire[c]) : wire[c][i].event_id # id

\* C9 as stated: an event sent without event_id goes out with a freshly generated
\* non-empty id, and an event sent with event_id X goes out with exactly X.
C9_IdAssignedOnlyWhenOmitted ==
  [][ Delivered =>
        IF calls'[1].event.event_id = Undefined
        THEN FreshId(Outgoing.event_id)
        ELSE Outgoing.event_id = calls'[1].event.event_id ]_vars

\* C9 amended: an event sent without event_id or with the empty string as event_id goes
\* out with a freshly generated non-empty id; an event sent with a non-empty event_id X
\* goes out with exactly X.
C9_IdAssignedWhenFalsy ==
  [][ Delivered =>
        /\ Outgoing.type = calls'[1].event.type
        /\ IF calls'[1].event.event_id \in {Undefined, Str("")}
           THEN FreshId(Outgoing.event_id)
           ELSE Outgoing.event_id = calls'[1].event.event_id ]_vars

\* a caller's non-empty id went out unchanged
C9_Witness ==
  /\ calls # <<>>
  /\ calls[1].open /\ ~calls[1].throws
  /\ calls[1].event.event_id = Str("X")
  /\ \E c \in Channels : wire[c] # <<>> /\ Last(wire[c]).event_id = Str("X")

\* C10: sendClientEvent called while the control channel is absent or not open sends
\* nothing, throws nothing and leaves the session snapshot unchanged; the event is not
\* buffered: the wire changes only in a send step whose channel is open, and then by
\* the events of that step, one per call.
C10_DroppedWhenNotOpen ==
  [][ /\ (nSends' > nSends /\ ~calls'[1].open) =>
           wire' = wire /\ session' = session /\ uncaught' = uncaught
      /\ wire' # wire =>
           /\ nSends' > nSends
           /\ calls'[1].open
           /\ \A c \in Channels :
                IF c = session.dataChannel
                THEN /\ Len(wire'[c]) <= Len(wire[c]) + Len(calls')
                     /\ SubSeq(wire'[c], 1, Len(wire[c])) = wire[c]
                     /\ \A i \in (Len(wire[c]) + 1)..Len(wire'[c]) :
                          wire'[c][i].type = calls'[i - Len(wire[c])].event.type
                ELSE wire'[c] = wire[c] ]_vars

\* an event was dropped on a channel that opened afterwards, and nothing was delivered
C10_Witness ==
  /\ calls # <<>>
  /\ ~calls[1].open
  /\ session # Null
  /\ session.dataChannel # NoHandle
  /\ chan[session.dataChannel] = "open"
  /\ \A c \in Channels : wire[c] = <<>>

----------------------------------------------------------------------------
(* Properties: teardown *)

\* a call of disconnect() through the context: the one counted step that neither
\* starts a connect() nor belongs to a connection or to a sender
DisconnectCall ==
  /\ steps' = steps + 1
  /\ owner' = owner
  /\ nSends' = nSends
  /\ \A k \in ConnIds :
       [conn'[k] EXCEPT !.tornDown = FALSE, !.pendingAtTeardown = FALSE] =
       [conn[k] EXCEPT !.tornDown = FALSE, !.pendingAtTeardown = FALSE]
  /\ chan'[Ext] \in {chan[Ext], "closed"}
  /\ (chan'[Ext] # chan[Ext]) => (session # Null /\ session.dataChannel = Ext)

\* C11: disconnect() called on a session an earlier disconnect() closed leaves
\* connectionStatus CLOSED and overwrites neither the endTime nor the duration the
\* first call stored.
C11_SecondDisconnectKeepsEndTime ==
  [][ (DisconnectCall /\ session # Null /\ session.connectionStatus = "CLOSED"
         /\ session.endTime # NoTime) =>
        /\ session'.connectionStatus = "CLOSED"
        /\ session'.endTime = session.endTime
        /\ session'.duration = session.duration ]_vars

\* every `session` a teardown can run with: the latest render's and each connect()'s
SessionRefs == 0..MaxConnects

\* teardown on the sessions of this state: nothing happens without a session, and a
\* second cleanup changes nothing the first one left
TeardownIsSafe ==
  \A ref \in SessionRefs :
    /\ SessionOf(ref, World) = Null =>
         /\ disconnect(ref, World, now) = World
         /\ cleanupWebRTCResources(ref, World) = World
    /\ cleanupWebRTCResources(ref, cleanupWebRTCResources(ref, World)) =
         cleanupWebRTCResources(ref, World)

\* C12: with session state null, disconnect() and cleanup throw nothing, dispatch
\* nothing and leave the state null; cleanup run twice on the same session leaves what
\* one run leaves.
C12_TeardownWithoutSession ==
  /\ []TeardownIsSafe
  /\ [][ (DisconnectCall /\ session = Null) =>
           /\ session' = Null
           /\ conn' = conn /\ chan' = chan /\ wire' = wire
           /\ uncaught' = uncaught ]_vars

\* disconnect() was called before any connect(): only such calls happened so far
C12_Witness ==
  /\ session = Null
  /\ steps > 0
  /\ nSends = 0
  /\ chan[Ext] = "connecting"

\* C13: when the data channel of the live session fires `open`, connectionStatus
\* becomes CONNECTED; when that open channel fires `close`, disconnect() runs for the
\* session, which ends with connectionStatus CLOSED and endTime set.
C13_ChannelEventsDriveStatus ==
  [][ \A k \in ConnIds :
        owner = k =>
          /\ (chan[Dc(k)] = "connecting" /\ chan'[Dc(k)] = "open") =>
               session'.connectionStatus = "CONNECTED"
          /\ (chan[Dc(k)] = "open" /\ chan'[Dc(k)] = "closed") =>
               /\ session'.connectionStatus = "CLOSED"
               /\ session'.endTime # NoTime ]_vars

----------------------------------------------------------------------------
(* Properties: inbound messages *)

\* the step handled an inbound data-channel message, recorded in inbox'
MessageStep == inbox' # inbox

\* the parsed event of the message handled in this step, when it is JSON
Received == inbox'[1].data.event

IsEvent(type) == MessageStep /\ inbox'[1].data.json /\ Received.type = type

\* the largest reset_seconds of a non-empty list of limits
LargestReset(L) ==
  CHOOSE m \in { L[i].reset_seconds : i \in 1..Len(L) } :
    \A i \in 1..Len(L) : L[i].reset_seconds <= m

\* the session holds list L as its rate limits, as computed at time t
RateLimitsAre(s, L, t) ==
  /\ "rateLimits" \in DOMAIN s
  /\ s.rateLimits = L
  /\ s.isRateLimited = (\E i \in 1..Len(L) : L[i].remaining <= 0)
  /\ L # <<>> => s.rateLimitResetTime = Time(t + LargestReset(L) * 1000)

ExpectedArguments(a) ==
  IF Falsy(a) THEN <<>>
  ELSE IF JsonParse(a[2]).ok THEN JsonParse(a[2]).value ELSE <<>>

\* C15: on `response.output_item.done` with a function_call item the handler is invoked
\* once with (item.name, parsed arguments), with the empty object when item.arguments is
\* absent or not valid JSON, and no error leaves the message listener.
C15_FunctionCallReachesHandler ==
  [][ (IsEvent("response.output_item.done") /\ Received.item.type = "function_call") =>
        /\ ~inbox'[1].threw
        /\ uncaught' = uncaught
        /\ inbox'[1].handlerCalls =
             <<[name |-> Received.item.name,
                args |-> ExpectedArguments(Received.item.arguments)]>> ]_vars

\* C16: after an inbound `error` message the error is observable by the caller: a
\* subscribed listener was invoked or the session snapshot changed.
C16_ErrorMessageSurfaced ==
  [][ IsEvent("error") => (invoked' # invoked \/ session' # session) ]_vars

\* the inbound types of the table of section 4.3
RecognizedTypes ==
  { "conversation.item.input_audio_transcription.completed",
    "response.audio_transcript.done",
    "response.output_item.done",
    "response.done",
    "rate_limits.updated",
    "error" }

\* C17: an inbound message whose type is not a recognized one is ignored: the session
\* snapshot is unchanged, the function-call handler is not invoked and no error is
\* raised.
C17_UnknownTypeIgnored ==
  [][ (MessageStep /\ inbox'[1].data.json /\ Received.type \notin RecognizedTypes) =>
        /\ session' = session
        /\ conn' = conn /\ chan' = chan /\ wire' = wire
        /\ inbox'[1].handlerCalls = <<>>
        /\ ~inbox'[1].threw
        /\ uncaught' = uncaught ]_vars

\* a `session.created` message was received and ignored
C17_Witness ==
  /\ inbox # <<>>
  /\ inbox[1].data = Json([type |-> "session.created"])
  /\ ~inbox[1].threw
  /\ inbox[1].handlerCalls = <<>>
  /\ session # Null /\ session.connectionStatus = "CONNECTED"

----------------------------------------------------------------------------
(* Properties: local capture *)

\* connect() k asked for local audio capture: it awaits getUserMedia, was rejected by
\* it, or holds its track
Captured(k) ==
  \/ conn[k].st \in {"awaitingMedia", "rejected"}
  \/ conn[k].localTrack # "none"

\* C18: a connect() whose modalities do not include AUDIO never invokes local audio
\* capture, whatever happens to the connection afterwards.
C18_TextOnlyNeverCaptures ==
  \A k \in ConnIds : (conn[k].st # "unused" /\ ~conn[k].audio) => ~Captured(k)

\* a text-only connect() went through its negotiation
C18_Witness ==
  \E k \in ConnIds :
    /\ ~conn[k].audio
    /\ conn[k].st = "resolved"
    /\ conn[k].neg = "done"
    /\ owner = k /\ "audio" \notin session.modalities

----------------------------------------------------------------------------
(* Properties: EventEmitter *)

\* the step is the EventEmitter operation op
EmitterStep(op) == invoked' # invoked /\ invoked'.op = op

\* how many times callback cb occurs in the sequence q
Count(cb, q) == Cardinality({ i \in 1..Len(q) : q[i] = cb })

\* C19: after on(T, cb), however many times it was called with the same cb, emitting
\* an event of type T invokes cb exactly once; a callback not registered for T (only
\* for another type, or removed) is not invoked.
C19_RegisteredCallbackInvokedOnce ==
  [][ EmitterStep("emit") =>
        \A cb \in Callbacks :
          Count(cb, invoked'.result.called) =
            IF registrations[<<invoked'.type, cb>>] > 0 THEN 1 ELSE 0 ]_vars

\* an emit invoked once a callback registered twice for its type, and did not invoke
\* a callback registered for the other type only
C19_Witness ==
  /\ invoked.op = "emit"
  /\ \E cb \in Callbacks :
       /\ registrations[<<invoked.type, cb>>] = 2
       /\ Count(cb, invoked.result.called) = 1
  /\ \E cb \in Callbacks : \E t \in EventTypes :
       /\ registrations[<<t, cb>>] > 0
       /\ registrations[<<invoked.type, cb>>] = 0
       /\ Count(cb, invoked.result.called) = 0

\* the (type, callback) pairs registered in the listeners ls
Registered(ls) ==
  { p \in EventTypes \X Callbacks : p[1] \in DOMAIN ls /\ p[2] \in Range(ls[p[1]]) }

\* C20: off(T, cb) removes cb for T and leaves every other registration; off(T)
\* removes every listener of T and none of another type; removeAll() leaves no
\* listener; an emit invokes registered callbacks only, so none after removeAll().
C20_RemovalIsExact ==
  [][ /\ (EmitterStep("off") /\ invoked'.callback # 0) =>
           Registered(listeners') =
             Registered(listeners) \ {<<invoked'.type, invoked'.callback>>}
      /\ (EmitterStep("off") /\ invoked'.callback = 0) =>
           Registered(listeners') = { p \in Registered(listeners) : p[1] # invoked'.type }
      /\ EmitterStep("removeAll") => Registered(listeners') = {}
      /\ EmitterStep("emit") =>
           Range(invoked'.result.called) =
             { cb \in Callbacks : <<invoked'.type, cb>> \in Registered(listeners) } ]_vars

\* off(T, cb) removed cb from T, where another callback stays, and cb stays registered
\* for the other type
C20_Witness ==
  /\ invoked.op = "off"
  /\ invoked.callback # 0
  /\ <<invoked.type, invoked.callback>> \in Registered(invoked.before)
  /\ <<invoked.type, invoked.callback>> \notin Registered(listeners)
  /\ \E cb \in Callbacks : cb # invoked.callback /\ <<invoked.type, cb>> \in Registered(listeners)
  /\ \E t \in EventTypes : t # invoked.type /\ <<t, invoked.callback>> \in Registered(listeners)

\* C21: when a listener of the emitted type throws, every other listener registered
\* for that type is still invoked exactly once in the same emit, the error is caught,
\* and emit itself does not throw.
C21_ListenerFailureIsolated ==
  [][ EmitterStep("emit") =>
        LET called == invoked'.result.called
            registered == IF invoked'.type \in DOMAIN listeners
                          THEN listeners[invoked'.type] ELSE <<>>
        IN /\ ~invoked'.result.threw
           /\ invoked'.result.caught = Cardinality({ cb \in Range(registered) : Throws(cb) })
           /\ (\E cb \in Range(registered) : Throws(cb)) =>
                \A cb \in Range(registered) : Count(cb, called) = 1 ]_vars

\* an emit whose first listener threw and whose second listener was invoked after it
C21_Witness ==
  /\ invoked.op = "emit"
  /\ Len(invoked.result.called) = 2
  /\ Throws(invoked.result.called[1])
  /\ ~Throws(invoked.result.called[2])
  /\ invoked.result.caught = 1
  /\ ~invoked.result.threw

----------------------------------------------------------------------------
(* Properties: the session snapshot *)

\* the step is a connect() call
ConnectStep == \E k \in ConnIds : conn[k].st = "unused" /\ conn'[k].st # "unused"

\* the transcripts of the snapshot s; none when s is null or has no such field
Transcripts(s) == IF "transcripts" \in DOMAIN s THEN s.transcripts ELSE <<>>

\* the Transcript the transcription-completion event of a message stands for, at time t
TranscriptFor(event, t) ==
  [content |-> event.transcript, timestamp |-> t,
   type |-> IF event.type = "response.audio_transcript.done" THEN "output" ELSE "input",
   role |-> IF event.type = "response.audio_transcript.done" THEN "assistant" ELSE "user"]

TranscriptionTypes ==
  {"conversation.item.input_audio_transcription.completed", "response.audio_transcript.done"}

\* C22: between two connect() calls the transcripts only grow at the end: a
\* transcription-completion message appends its one Transcript (user/input or
\* assistant/output), whether or not an equal one is there already, and every other
\* step leaves the sequence as it is.
C22_TranscriptsAppendOnly ==
  [][ ~ConnectStep =>
        IF /\ MessageStep
           /\ inbox'[1].data.json
           /\ inbox'[1].data.event.type \in TranscriptionTypes
        THEN Transcripts(session') =
               Append(Transcripts(session), TranscriptFor(inbox'[1].data.event, now))
        ELSE Transcripts(session') = Transcripts(session) ]_vars

\* two transcripts were appended, in the order of their messages, or twice the same
C22_Witness ==
  /\ session # Null
  /\ Len(Transcripts(session)) = 2
  /\ \/ Transcripts(session)[1] = Transcripts(session)[2]
     \/ /\ Transcripts(session)[1].role = "user"
        /\ Transcripts(session)[2].role = "assistant"
  /\ inbox # <<>>
  /\ inbox[1].data.json
  /\ inbox[1].data.event.type \in TranscriptionTypes
  /\ Transcripts(session)[2] = TranscriptFor(inbox[1].data.event, now)

\* the step applies an action to the store on its own
DispatchStep == reduced' # reduced

\* C23: every action other than INIT_SESSION leaves a null state null; INIT_SESSION
\* returns its payload as the new state whatever the state was, with no field of a
\* replaced session carried over.
C23_NullRule ==
  [][ DispatchStep =>
        /\ reduced'.action.type = "INIT_SESSION" => session' = reduced'.action.payload
        /\ (reduced'.action.type # "INIT_SESSION" /\ session = Null) => session' = Null ]_vars

\* actions of three other types found the state null and left it null, and an
\* INIT_SESSION then replaced a session that had transcripts and a mute flag
C23_Witness ==
  /\ {"UPDATE_SESSION", "ADD_TRANSCRIPT", "MUTE_SESSION_AUDIO"} \subseteq reduced.onNull
  /\ reduced.action.type = "INIT_SESSION"
  /\ reduced.before # Null
  /\ {"transcripts", "isMuted"} \subseteq DOMAIN reduced.before
  /\ session = reduced.action.payload
  /\ DOMAIN session \cap {"transcripts", "isMuted"} = {}

\* C24: between one connect() and the next the snapshot has the id and the modalities
\* given to that connect(), also after callbacks of an earlier, replaced session ran.
C24_IdAndModalitiesStable ==
  (session # Null /\ owner # 0) =>
    /\ session.id = conn[owner].sessionId
    /\ ("audio" \in session.modalities) = conn[owner].audio

\* C25: right after connect() initialized the session connectionStatus is CONNECTING,
\* whatever connectionStatus the session configuration carried.
C25_ConnectStartsConnecting ==
  [][ ConnectStep => session'.connectionStatus = "CONNECTING" ]_vars

\* C26: connect() sets startTime; disconnect() sets endTime and stores the duration
\* (endTime - startTime) in seconds, which is never negative and is 0 only when
\* startTime is absent.
C26_SessionTiming ==
  [][ /\ ConnectStep => session'.startTime # NoTime
      /\ (DisconnectCall /\ session # Null) =>
           /\ session'.endTime = Time(now)
           /\ session'.duration # NoTime
           /\ session'.duration[1] >= 0
           /\ session.startTime # NoTime =>
                1000 * session'.duration[1] = now - session.startTime[1]
           /\ session'.duration[1] = 0 => session.startTime = NoTime ]_vars

\* C27: after disconnect() with its default options (removeAfterConnectionClose) the
\* session state is null.
C27_DisconnectClearsSession ==
  [][ DisconnectCall => session' = Null ]_vars

----------------------------------------------------------------------------
(* Properties: reconnection and the establishment timers *)

\* an attemptReconnection of connect() k settled in this step
AttemptSettled(k) == conn'[k].reconnInFlight < conn[k].reconnInFlight

\* C28: a reconnection attempt that succeeds sets connectionStatus to CONNECTED; one
\* that fails leaves the snapshot as it was, raises nothing and schedules no further
\* attempt.
C28_ReconnectionOutcome ==
  [][ \A k \in ConnIds :
        AttemptSettled(k) =>
          IF conn'[k].lastAttempt = "succeeded"
          THEN session'.connectionStatus = "CONNECTED"
          ELSE /\ session' = session
               /\ uncaught' = uncaught
               /\ conn'[k].reconnTimers = conn[k].reconnTimers
               /\ conn'[k].reconnInFlight = conn[k].reconnInFlight - 1 ]_vars

\* an attempt failed: the status is still RECONNECTING, nothing is pending, nothing
\* was raised
C28_Witness ==
  \E k \in ConnIds :
    /\ conn[k].lastAttempt = "failed"
    /\ owner = k
    /\ session.connectionStatus = "RECONNECTING"
    /\ conn[k].reconnTimers + conn[k].reconnInFlight = 0
    /\ uncaught = {}

\* C29: connectionStatus becomes RECONNECTING only from DISCONNECTED, also when the
\* transport state of the session's connection changed again during the 2 s delay.
C29_ReconnectingOnlyFromDisconnected ==
  [][ \A k \in ConnIds :
        (/\ owner = k
         /\ conn'[k].reconnTimers < conn[k].reconnTimers
         /\ session'.connectionStatus = "RECONNECTING"
         /\ session.connectionStatus # "RECONNECTING") =>
          session.connectionStatus = "DISCONNECTED" ]_vars

\* an establishment timer of connect() k fired in this step
TimerFired(k) ==
  \/ conn[k].timer1 = "armed" /\ conn'[k].timer1 = "fired"
  \/ conn[k].timer2 = "armed" /\ conn'[k].timer2 = "fired"

\* C30: when an establishment timer fires before connectionStatus reached CONNECTED,
\* cleanup runs for that session and connectionStatus ends at FAILED or CLOSED, with
\* nothing thrown.
C30_TimeoutEndsTerminal ==
  [][ \A k \in ConnIds :
        (/\ TimerFired(k)
         /\ owner = k
         /\ ~conn[k].reachedConnected
         /\ session.connectionStatus # "CONNECTED") =>
          /\ session'.connectionStatus \in {"FAILED", "CLOSED"}
          /\ uncaught' = uncaught ]_vars

\* C31: under fair scheduling of timers and of signaling completions, whenever
\* connectionStatus is RECONNECTING it eventually becomes CONNECTED, FAILED or CLOSED.
C31_ReconnectingIsTransient ==
  (session # Null /\ session.connectionStatus = "RECONNECTING")
    ~> (session # Null /\ session.connectionStatus \in {"CONNECTED", "FAILED", "CLOSED"})

----------------------------------------------------------------------------
(* Properties: cleanup *)

\* cleanup ran in this step for the live session of connect() k: disconnect(), a
\* transport state failed or closed, or an establishment timer
CleanupRan(k) ==
  /\ owner = k
  /\ conn[k].st = "resolved"
  /\ \/ DisconnectCall
     \/ conn'[k].ice # conn[k].ice /\ conn'[k].ice \in {"failed", "closed"}
     \/ TimerFired(k) /\ ~conn[k].reachedConnected

\* C32: every path that runs cleanup for a live session ends with the data channel
\* and the peer connection its connect() created closed and the owned handles null.
C32_CleanupClosesTransport ==
  [][ \A k \in ConnIds :
        CleanupRan(k) =>
          /\ chan'[Dc(k)] = "closed"
          /\ conn'[k].ice = "closed"
          /\ session'.mediaStream = NoHandle
          /\ session'.dataChannel = NoHandle
          /\ session'.peer_connection = NoHandle ]_vars

\* C33: after disconnect() on a session connected with AUDIO the local audio track
\* acquired by connect() is stopped and hasAudio is false.
C33_DisconnectStopsLocalTrack ==
  [][ \A k \in ConnIds :
        (DisconnectCall /\ owner = k /\ conn[k].localTrack = "live") =>
          /\ conn'[k].localTrack # "live"
          /\ session'.hasAudio = FALSE ]_vars

----------------------------------------------------------------------------
(* Properties: status and inbound messages *)

\* C34: once connectionStatus is FAILED or CLOSED it keeps that value in every later
\* state until the next connect(), whichever timers or exchanges complete afterwards.
C34_TerminalStatusAbsorbing ==
  [][ (/\ ~ConnectStep
       /\ session # Null
       /\ session.connectionStatus \in {"FAILED", "CLOSED"}) =>
        session'.connectionStatus = session.connectionStatus ]_vars

\* the tokenUsage of the snapshot s, or none
TokenUsageIn(s) == IF "tokenUsage" \in DOMAIN s THEN <<s.tokenUsage>> ELSE <<>>

\* C35: a `response.done` carrying usage u sets tokenUsage to u's three counts whatever
\* it was before, and a `response.done` without usage leaves tokenUsage as it is.
C35_TokenUsageOverwritten ==
  [][ IsEvent("response.done") =>
        IF "response" \in DOMAIN Received /\ "usage" \in DOMAIN Received.response
        THEN TokenUsageIn(session') =
               <<[inputTokens |-> Received.response.usage.input_tokens,
                  outputTokens |-> Received.response.usage.output_tokens,
                  totalTokens |-> Received.response.usage.total_tokens]>>
        ELSE TokenUsageIn(session') = TokenUsageIn(session) ]_vars

\* a `response.done` with usage arrived when tokenUsage held other counts, and
\* tokenUsage now holds the counts of the message
C35_Witness ==
  /\ inbox # <<>>
  /\ inbox[1].data.json
  /\ inbox[1].data.event.type = "response.done"
  /\ "response" \in DOMAIN inbox[1].data.event
  /\ "usage" \in DOMAIN inbox[1].data.event.response
  /\ TokenUsageIn(inbox[1].before) # <<>>
  /\ TokenUsageIn(inbox[1].before) # TokenUsageIn(session)
  /\ session.tokenUsage.totalTokens = inbox[1].data.event.response.usage.total_tokens

\* C36: for every connectivity state the engine reports, `new` included, the
\* connectivity-state handler completes without raising.
C36_IceHandlerNeverThrows ==
  [][ \A k \in ConnIds : conn'[k].ice # conn[k].ice => uncaught' = uncaught ]_vars

----------------------------------------------------------------------------
(* Properties: hasAudio and isMuted *)

\* the local audio track of connect() k ended in this step
LocalTrackEnds(k) == conn[k].localTrack = "live" /\ conn'[k].localTrack = "ended"

\* C37: hasAudio follows the local audio track of the current session: it is false
\* once that track ended, and the ended-track callback of an earlier, replaced session
\* does not change it.
C37_HasAudioFollowsOwnTrack ==
  [][ \A k \in ConnIds :
        LocalTrackEnds(k) =>
          IF owner = k
          THEN session'.hasAudio = FALSE
          ELSE session'.hasAudio = session.hasAudio ]_vars

\* the fields of snapshot s other than those in the set except
Others(s, except) == [f \in DOMAIN s \ except |-> s[f]]

\* isMuted of the snapshot s, or none
MutedIn(s) == IF "isMuted" \in DOMAIN s THEN <<s.isMuted>> ELSE <<>>

\* C38: the mute and unmute actions change only isMuted and leave every other field
\* of the session as it is, and no update of hasAudio changes isMuted.
C38_MuteIndependentOfAudio ==
  [][ (DispatchStep /\ session # Null) =>
        /\ reduced'.action.type \in {"MUTE_SESSION_AUDIO", "UNMUTE_SESSION_AUDIO"} =>
             /\ MutedIn(session') = <<reduced'.action.type = "MUTE_SESSION_AUDIO">>
             /\ Others(session', {"isMuted"}) = Others(session, {"isMuted"})
        /\ (/\ reduced'.action.type = "UPDATE_SESSION"
            /\ "hasAudio" \in DOMAIN reduced'.action.payload) =>
             MutedIn(session') = MutedIn(session) ]_vars

\* a session with a live track, transcripts, token usage and rate limits was muted and
\* kept them all
C38_Witness ==
  /\ reduced.action.type = "MUTE_SESSION_AUDIO"
  /\ reduced.before # Null
  /\ {"transcripts", "tokenUsage", "rateLimits"} \subseteq DOMAIN reduced.before
  /\ reduced.before.hasAudio
  /\ session.hasAudio
  /\ session.isMuted
  /\ Others(session, {"isMuted"}) = Others(reduced.before, {"isMuted"})

\* the fields of the session that describe the connection
ConnectionFields ==
  {"connectionStatus", "id", "startTime", "endTime",
   "mediaStream", "dataChannel", "peer_connection"}

\* C39: handling an inbound message of any type (transcription completed, transcript
\* done, output item done, response done, rate limits updated, error, unknown, or
\* text that is not JSON) leaves connectionStatus, id, startTime, endTime and the
\* owned transport handles of the session unchanged, and the transport as it was.
C39_MessagesLeaveConnection ==
  [][ MessageStep =>
        /\ \A f \in ConnectionFields : session'[f] = session[f]
        /\ conn' = conn
        /\ chan' = chan ]_vars

\* a message changed the snapshot of a CONNECTED session and left the connection
\* fields as they were
C39_Witness ==
  /\ inbox # <<>>
  /\ session # inbox[1].before
  /\ session.connectionStatus = "CONNECTED"
  /\ \A f \in ConnectionFields : session[f] = inbox[1].before[f]

----------------------------------------------------------------------------
(* Properties: a send that raises *)

\* C40: when dataChannel.send raises inside sendClientEvent on an open channel, the
\* call returns normally and leaves the session, the channels and the wire as they
\* were; a later call on an open channel whose send does not raise hands its message
\* to the channel.
C40_SendFailureCaught ==
  [][ OneCallStep =>
        /\ calls'[1].throws =>
             /\ calls'[1].open
             /\ uncaught' = uncaught
             /\ session' = session
             /\ chan' = chan
             /\ wire' = wire
        /\ (calls'[1].raised /\ calls'[1].open /\ ~calls'[1].throws) =>
             /\ Len(wire'[session.dataChannel]) = Len(wire[session.dataChannel]) + 1
             /\ Outgoing.type = calls'[1].event.type ]_vars

\* after a call whose send raised and put nothing on the wire, a second call went out
C40_Witness ==
  /\ calls # <<>>
  /\ calls[1].raised
  /\ calls[1].open
  /\ ~calls[1].throws
  /\ uncaught = {}
  /\ session # Null
  /\ session.dataChannel # NoHandle
  /\ Len(wire[session.dataChannel]) = 1
  /\ wire[session.dataChannel][1].type = calls[1].event.type

====
